---- MODULE Spec2Model ----
(***************************************************************************)
(* Model of the HTTP client of src/src/core/http/HttpClient.ts             *)
(* (HttpClient, RetryPolicyHelper, DefaultRetryPolicy) together with the   *)
(* error classifier ErrorHandler (src/unnamed/part_006) it relies on, and   *)
(* of CacheService (src/src/core/cache/CacheService.ts).                   *)
(*                                                                         *)
(* JavaScript values are encoded as follows:                               *)
(*   - an absent / undefined string property is "", an absent / undefined  *)
(*     number is 0 (both are falsy in every `||` chain the code uses);     *)
(*   - an optional object is a set with at most one element;               *)
(*   - an error object is a record of the properties the classifier        *)
(*     probes, plus `id`, the object's identity (the attempt that raised   *)
(*     it).                                                                *)
(***************************************************************************)
EXTENDS Integers, Sequences, FiniteSets, TLC

\* ------------------------------------------------------------------ bounds
\* Longest interceptor list the owning application registers.
MaxInterceptors == 2

\* Number of request() calls that may be in flight on one client.
MaxCalls == 2

\* Largest maxAttempts among the retry policies the callers supply.
MaxAttemptsLimit == 3

\* Largest attempt number the helpers are invoked with directly.
MaxProbeAttempt == 5

\* Largest maxSize the cache is given through setMaxSize.
MaxCacheSize == 2

\* Number of lookups counted by the cache statistics.
MaxLookups == 2

\* ------------------------------------------------------- ErrorTypes (enum)
ErrorCategory ==
  {"NETWORK", "AUTHENTICATION", "AUTHORIZATION", "VALIDATION",
   "BUSINESS", "SYSTEM", "UNKNOWN"}

\* ------------------------------------------------------------ error values
\* The error thrown by executeRequest when the abort signal fires.
TimeoutError(id) ==
  [message |-> "Request timeout", code |-> "TIMEOUT", name |-> "",
   status |-> 408, retryAfterHdr |-> "", id |-> id]

\* The error thrown by executeRequest for a response that is not ok.
HttpError(status, id) ==
  [message |-> "", code |-> "", name |-> "",
   status |-> status, retryAfterHdr |-> "", id |-> id]

\* The rejection of fetch() on a transport failure.
FetchError(id) ==
  [message |-> "Failed to fetch", code |-> "", name |-> "TypeError",
   status |-> 0, retryAfterHdr |-> "", id |-> id]

\* The rejection of response.json() on a malformed body.
ParseError(id) ==
  [message |-> "Unexpected token", code |-> "", name |-> "SyntaxError",
   status |-> 0, retryAfterHdr |-> "", id |-> id]

\* Errors an onRequest / onResponse hook may throw.
HookErrors(id) ==
  { [message |-> "Interceptor failed", code |-> "", name |-> "Error",
     status |-> 0, retryAfterHdr |-> "", id |-> id],
    [message |-> "Connection lost", code |-> "", name |-> "Error",
     status |-> 0, retryAfterHdr |-> "", id |-> id] }

\* The rejection of fetch() for a method it refuses (TRACE, CONNECT, TRACK):
\* a TypeError whose message depends on the engine - Chromium's names the
\* fetch call, others only the method.
MethodErrors(id) ==
  { [message |-> "Failed to execute 'fetch' on 'Window'", code |-> "",
     name |-> "TypeError", status |-> 0, retryAfterHdr |-> "", id |-> id],
    [message |-> "HTTP method is unsupported", code |-> "",
     name |-> "TypeError", status |-> 0, retryAfterHdr |-> "", id |-> id] }

\* String.prototype.toLowerCase on the messages that occur.
ToLowerCase(s) ==
  CASE s = "Request timeout"    -> "request timeout"
    [] s = "Failed to fetch"    -> "failed to fetch"
    [] s = "Unexpected token"   -> "unexpected token"
    [] s = "Interceptor failed" -> "interceptor failed"
    [] s = "Connection lost"    -> "connection lost"
    [] s = "Failed to execute 'fetch' on 'Window'"
                                -> "failed to execute 'fetch' on 'window'"
    [] s = "HTTP method is unsupported"
                                -> "http method is unsupported"
    [] s = "TIMEOUT"            -> "timeout"
    [] s = "ECONNREFUSED"       -> "econnrefused"
    [] s = "Content-Type"       -> "content-type"
    [] s = "Accept"             -> "accept"
    [] s = "X-Api-Key"          -> "x-api-key"
    [] OTHER                    -> s

\* String.prototype.includes on the (lower-cased) messages that occur.
Includes(s, sub) ==
  <<s, sub>> \in { <<"request timeout", "timeout">>,
                   <<"failed to fetch", "fetch">>,
                   <<"failed to execute 'fetch' on 'window'", "fetch">>,
                   <<"connection lost", "connection">> }

\* ------------------------------------------------------------ ErrorHandler
extractStatusCode(error) == error.status

isNetworkError_noTimeout(error) ==
  LET message == ToLowerCase(error.message)
      code    == ToLowerCase(error.code)
  IN  \/ Includes(message, "network")
      \/ Includes(message, "fetch")
      \/ Includes(message, "connection")
      \/ code = "econnrefused"
      \/ code = "enetunreach"
      \/ code = "etimedout"
      \/ error.name = "NetworkError"
      \/ (error.name = "TypeError" /\ Includes(message, "fetch"))

isNetworkError(error) ==
  LET message == ToLowerCase(error.message)
      code    == ToLowerCase(error.code)
  IN  \/ Includes(message, "network")
      \/ Includes(message, "fetch")
      \/ Includes(message, "connection")
      \/ Includes(message, "timeout")
      \/ code = "econnrefused"
      \/ code = "enetunreach"
      \/ code = "etimedout"
      \/ error.name = "NetworkError"
      \/ (error.name = "TypeError" /\ Includes(message, "fetch"))

isAuthenticationError(error) ==
  \/ extractStatusCode(error) = 401
  \/ error.code = "UNAUTHORIZED"
  \/ error.name = "UnauthorizedError"

isAuthorizationError(error) ==
  \/ extractStatusCode(error) = 403
  \/ error.code = "FORBIDDEN"
  \/ error.name = "ForbiddenError"

isValidationError(error) ==
  \/ extractStatusCode(error) = 400
  \/ error.code = "VALIDATION_ERROR"
  \/ error.name = "ValidationError"

isBusinessError(error) ==
  LET statusCode == extractStatusCode(error)
  IN  /\ statusCode >= 400
      /\ statusCode < 500
      /\ statusCode # 401
      /\ statusCode # 403
      /\ statusCode # 400

isSystemError_noUpper(error) ==
  LET statusCode == extractStatusCode(error)
  IN  statusCode >= 500

isSystemError(error) ==
  LET statusCode == extractStatusCode(error)
  IN  statusCode >= 500 /\ statusCode < 600

categorize(error) ==
  IF isNetworkError(error) THEN "NETWORK"
  ELSE IF isAuthenticationError(error) THEN "AUTHENTICATION"
  ELSE IF isAuthorizationError(error) THEN "AUTHORIZATION"
  ELSE IF isValidationError(error) THEN "VALIDATION"
  ELSE IF isBusinessError(error) THEN "BUSINESS"
  ELSE IF isSystemError(error) THEN "SYSTEM"
  ELSE "UNKNOWN"

ErrorHandler_shouldRetry_no429(error) ==
  LET category == categorize(error)
  IN  category = "NETWORK" \/ category = "SYSTEM"

\* ErrorHandler.shouldRetry
ErrorHandler_shouldRetry(error) ==
  LET category == categorize(error)
  IN  IF category = "NETWORK" \/ category = "SYSTEM" THEN TRUE
      ELSE IF extractStatusCode(error) = 429 THEN TRUE
      ELSE FALSE

\* parseInt on the Retry-After values that occur; -1 stands for NaN.
parseInt(s) ==
  CASE s = "0" -> 0
    [] s = "1" -> 1
    [] s = "2" -> 2
    [] OTHER   -> -1

\* ErrorHandler.getRetryAfter; 0 stands for undefined (and for NaN and 0,
\* which the caller's truthiness test treats alike).
getRetryAfter(error) ==
  IF extractStatusCode(error) = 429
  THEN IF error.retryAfterHdr # ""
       THEN (IF parseInt(error.retryAfterHdr) < 0
             THEN 0 ELSE parseInt(error.retryAfterHdr) * 1000)
       ELSE 1000
  ELSE IF categorize(error) = "NETWORK" \/ categorize(error) = "SYSTEM"
       THEN 1000
       ELSE 0

\* ErrorHandler.parse: the fields of ErrorInfo the client reads.
parse(error) ==
  [category    |-> categorize(error),
   statusCode  |-> extractStatusCode(error),
   errorCode   |-> error.code,
   shouldRetry |-> ErrorHandler_shouldRetry(error),
   retryAfter  |-> getRetryAfter(error)]

\* ------------------------------------------------------------- RetryPolicy
DefaultRetryPolicy ==
  [maxAttempts |-> 3, baseDelay |-> 1000, maxDelay |-> 10000,
   exponentialBackoff |-> TRUE, retryableErrors |-> {"NETWORK", "SYSTEM"}]

RECURSIVE Pow2(_)
Pow2(n) == IF n <= 0 THEN 1 ELSE 2 * Pow2(n - 1)

Min(a, b) == IF a < b THEN a ELSE b

calculateDelay_exponentAttempt(attempt, policy) ==
  IF ~policy.exponentialBackoff
  THEN policy.baseDelay
  ELSE Min(policy.baseDelay * Pow2(attempt), policy.maxDelay)

\* RetryPolicyHelper.calculateDelay
calculateDelay(attempt, policy) ==
  IF ~policy.exponentialBackoff
  THEN policy.baseDelay
  ELSE Min(policy.baseDelay * Pow2(attempt - 1), policy.maxDelay)

RetryPolicyHelper_shouldRetry_noWhitelist(error, attempt, policy) ==
  IF attempt >= policy.maxAttempts THEN FALSE
  ELSE parse(error).shouldRetry

RetryPolicyHelper_shouldRetry_gt(error, attempt, policy) ==
  IF attempt > policy.maxAttempts THEN FALSE
  ELSE IF policy.retryableErrors # {}
       THEN parse(error).category \in policy.retryableErrors
       ELSE parse(error).shouldRetry

RetryPolicyHelper_shouldRetry_offByOne(error, attempt, policy) ==
  IF attempt + 1 >= policy.maxAttempts THEN FALSE
  ELSE IF policy.retryableErrors # {}
       THEN parse(error).category \in policy.retryableErrors
       ELSE parse(error).shouldRetry

\* RetryPolicyHelper.shouldRetry
RetryPolicyHelper_shouldRetry(error, attempt, policy) ==
  IF attempt >= policy.maxAttempts THEN FALSE
  ELSE IF policy.retryableErrors # {}
       THEN parse(error).category \in policy.retryableErrors
       ELSE parse(error).shouldRetry

getRetryDelay_backoffOnly(error, attempt, policy) ==
  calculateDelay(attempt, policy)

\* RetryPolicyHelper.getRetryDelay
getRetryDelay(error, attempt, policy) ==
  IF parse(error).retryAfter # 0
  THEN parse(error).retryAfter
  ELSE calculateDelay(attempt, policy)

\* ------------------------------------------------------------ interceptors
\* The interceptor objects the application registers.  Each is a subset of
\* the hooks of IHttpInterceptor; "" marks an absent hook.
\*   hdr   : onRequest returns the config with header X-Test added
\*   guard : onRequest returns its input or throws
\*   xform : onResponse returns the response with its data transformed, or
\*           throws; onError rethrows (CoreServicesExamples)
InterceptorIds == {"hdr", "guard", "xform"}

IHttpInterceptor(i) ==
  CASE i = "hdr"   -> [onRequest |-> "addHeader", onResponse |-> "", onError |-> ""]
    [] i = "guard" -> [onRequest |-> "mayThrow", onResponse |-> "", onError |-> ""]
    [] i = "xform" -> [onRequest |-> "", onResponse |-> "transform", onError |-> "rethrow"]

\* ----------------------------------------------------------------- inputs
\* Retry policies a caller passes with a request.
Policies ==
  [maxAttempts : 0..MaxAttemptsLimit,
   baseDelay : {100},
   maxDelay : {150, 10000},
   exponentialBackoff : BOOLEAN,
   retryableErrors : {{}, {"NETWORK", "SYSTEM"}, {"BUSINESS"}}]

\* HttpClientConfig.retryPolicy as given to the constructor: absent, or the
\* policy of the documented usage (core/README.md).
ClientPolicies ==
  { {},
    {[maxAttempts |-> 3, baseDelay |-> 1000, maxDelay |-> 10000,
      exponentialBackoff |-> TRUE, retryableErrors |-> {}]} }

\* HttpRequestConfig.method as typed; a caller can pass any other string
\* through the `...config` spread of get / post / put / delete / patch.
HttpMethods == {"GET", "POST", "PUT", "DELETE", "PATCH"}

\* Status codes the remote endpoint answers with.
Statuses == {200, 404, 429, 500}

Calls == 1..MaxCalls

\* ------------------------------------------------------------------ state
VARIABLES
  interceptors,       \* HttpClient.interceptors
  clientRetryPolicy,  \* HttpClient.config.retryPolicy (optional)
  calls,              \* one record per request() invocation slot
  probe,              \* one direct invocation of the classifier and of
                      \* RetryPolicyHelper: its arguments and results
  built,              \* one construction of a client and one
                      \* buildRequestConfig on it: arguments and results
  cache               \* the CacheService instance

vars == <<interceptors, clientRetryPolicy, calls, probe, built, cache>>

\* A request() slot before its first invocation.
IdleCall ==
  [pc          |-> "idle",
   retryPolicy |-> DefaultRetryPolicy,
   method      |-> "GET",
   attempt     |-> 0,
   fullConfig  |-> {},      \* header names of fullConfig
   cur         |-> {},      \* header names of interceptedConfig
   idx         |-> 0,       \* position of the interceptor being awaited
   hook        |-> "",      \* the interceptor whose hook is being awaited
   timer       |-> "none",  \* the setTimeout of executeRequest
   response    |-> [status |-> 0, attempt |-> 0, transformed |-> FALSE,
                    stalled |-> FALSE],
   lastError   |-> {},
   resolution  |-> {},      \* value request() resolved with
   rejection   |-> {},      \* error request() rejected with
   execCount   |-> 0,       \* history: executeRequest invocations
   execLog     |-> <<>>,    \* history: configs handed to executeRequest
   hookLog     |-> <<>>,    \* history: hooks invoked
   waits       |-> <<>>,    \* history: delays awaited
   hist        |-> <<>>,    \* history: the failure of each failed attempt
   trace       |-> <<>>,    \* history: the events of the call, in order
   snapshot    |-> <<>>,    \* history: the interceptor list at the start
                            \* of the current attempt
   onErrorCalls|-> 0]       \* history: onError hook invocations

InFlight(call) == call.pc \notin {"idle", "resolved", "rejected"}

\* ------------------------------------------------------- request() pieces
\* Position of the first interceptor at or after `from` that has `hook`;
\* 0 when the iteration is exhausted (for...of over the live array).
NextHook(list, from, hook) ==
  LET S == { i \in from..Len(list) : IHttpInterceptor(list[i])[hook] # "" }
  IN  IF S = {} THEN 0 ELSE CHOOSE i \in S : \A j \in S : i <= j

\* executeRequest up to `await fetch`: arm the timer and start the exchange.
executeRequest(call, config) ==
  [call EXCEPT !.pc = "fetch", !.cur = config, !.idx = 0, !.hook = "",
               !.timer = "armed",
               !.execCount = @ + 1,
               !.execLog = Append(@, [attempt |-> call.attempt,
                                       headers |-> config]),
               !.trace = Append(@, <<"exec", call.attempt>>)]

\* applyRequestInterceptors resumed at position `from` with `config`:
\* await the next onRequest hook, or return and call executeRequest.
applyRequestInterceptors(call, list, from, config) ==
  LET i == NextHook(list, from, "onRequest")
  IN  IF i = 0 THEN executeRequest(call, config)
      ELSE [call EXCEPT !.pc = "onRequest", !.cur = config, !.idx = i,
                        !.hook = list[i],
                        !.hookLog = Append(@, [attempt |-> call.attempt,
                                               hook |-> "onRequest",
                                               pos |-> i, id |-> list[i],
                                               arg |-> config]),
                        !.trace = Append(@, <<"onRequest", call.attempt>>)]

\* applyResponseInterceptors resumed at position `from` with `response`:
\* await the next onResponse hook, or return interceptedResponse.data.
applyResponseInterceptors(call, list, from, response) ==
  LET i == NextHook(list, from, "onResponse")
  IN  IF i = 0
      THEN [call EXCEPT !.pc = "resolved", !.response = response, !.idx = 0,
                        !.hook = "",
                        !.resolution = {[attempt |-> response.attempt,
                                         transformed |-> response.transformed]},
                        !.trace = Append(@, <<"return", call.attempt>>)]
      ELSE [call EXCEPT !.pc = "onResponse", !.response = response, !.idx = i,
                        !.hook = list[i],
                        !.hookLog = Append(@, [attempt |-> call.attempt,
                                               hook |-> "onResponse",
                                               pos |-> i, id |-> list[i],
                                               arg |-> response]),
                        !.trace = Append(@, <<"onResponse", call.attempt>>)]

\* The first attempt number of the retry loop.
FirstAttempt == 1

LoopHead_interceptOnce(call, list, attempt) ==
  IF attempt <= call.retryPolicy.maxAttempts
  THEN IF attempt = 1
       THEN applyRequestInterceptors(
              [call EXCEPT !.attempt = attempt, !.snapshot = list,
                           !.trace = Append(@, <<"try", attempt>>)],
              list, 1, call.fullConfig)
       ELSE executeRequest(
              [call EXCEPT !.attempt = attempt, !.snapshot = list,
                           !.trace = Append(@, <<"try", attempt>>)],
              call.fullConfig)
  ELSE [call EXCEPT !.pc = "rejected", !.attempt = attempt,
                    !.rejection = call.lastError,
                    !.trace = Append(@, <<"rethrow", attempt>>)]

LoopHead_foldPrevious(call, list, attempt) ==
  IF attempt <= call.retryPolicy.maxAttempts
  THEN applyRequestInterceptors(
         [call EXCEPT !.attempt = attempt, !.snapshot = list,
                      !.trace = Append(@, <<"try", attempt>>)],
         list, 1, IF attempt = 1 THEN call.fullConfig ELSE call.cur)
  ELSE [call EXCEPT !.pc = "rejected", !.attempt = attempt,
                    !.rejection = call.lastError,
                    !.trace = Append(@, <<"rethrow", attempt>>)]

\* The loop head `attempt <= retryPolicy.maxAttempts` and what follows it:
\* the try block, or the statements after the loop.
LoopHead(call, list, attempt) ==
  IF attempt <= call.retryPolicy.maxAttempts
  THEN applyRequestInterceptors(
         [call EXCEPT !.attempt = attempt, !.snapshot = list,
                      !.trace = Append(@, <<"try", attempt>>)],
         list, 1, call.fullConfig)
  ELSE [call EXCEPT !.pc = "rejected", !.attempt = attempt,
                    !.rejection = call.lastError,
                    !.trace = Append(@, <<"rethrow", attempt>>)]

Rethrown_first(call, error) ==
  IF call.hist # <<>> THEN call.hist[1].error ELSE error

\* The value the catch block throws when the attempt is not retried.
Rethrown(call, error) == error

Catch_waitBeforeThrow(call, error, src) ==
  LET c1 == [call EXCEPT !.lastError = {error}, !.timer = "none", !.hook = "",
                         !.hist = Append(@, [error |-> error, src |-> src,
                                             pos |-> call.idx]),
                         !.trace = Append(@, <<"catch", call.attempt>>),
                         !.waits = Append(@, getRetryDelay(error, call.attempt,
                                                           call.retryPolicy))]
  IN  IF ~RetryPolicyHelper_shouldRetry(error, call.attempt, call.retryPolicy)
      THEN [c1 EXCEPT !.pc = "rejected",
                      !.rejection = {Rethrown(call, error)}]
      ELSE [c1 EXCEPT !.pc = "delay"]

Catch_hooksBypass(call, error, src) ==
  LET c1 == [call EXCEPT !.lastError = {error}, !.timer = "none", !.hook = "",
                         !.hist = Append(@, [error |-> error, src |-> src,
                                             pos |-> call.idx]),
                         !.trace = Append(@, <<"catch", call.attempt>>)]
  IN  IF src # "exec"
         \/ ~RetryPolicyHelper_shouldRetry(error, call.attempt, call.retryPolicy)
      THEN [c1 EXCEPT !.pc = "rejected", !.rejection = {error}]
      ELSE [c1 EXCEPT !.pc = "delay",
                      !.waits = Append(@, getRetryDelay(error, call.attempt,
                                                        call.retryPolicy))]

\* The catch block of the retry loop.
Catch(call, error, src) ==
  LET c1 == [call EXCEPT !.lastError = {error}, !.timer = "none", !.hook = "",
                         !.hist = Append(@, [error |-> error, src |-> src,
                                             pos |-> call.idx]),
                         !.trace = Append(@, <<"catch", call.attempt>>)]
  IN  IF ~RetryPolicyHelper_shouldRetry(error, call.attempt, call.retryPolicy)
      THEN [c1 EXCEPT !.pc = "rejected",
                      !.rejection = {Rethrown(call, error)}]
      ELSE [c1 EXCEPT !.pc = "delay",
                      !.waits = Append(@, getRetryDelay(error, call.attempt,
                                                        call.retryPolicy))]

\* ----------------------------------------------------------------- actions
\* No direct invocation of the helpers.
NoProbe ==
  [error |-> HttpError(0, 0), attempt |-> 0, policy |-> DefaultRetryPolicy,
   errorInfo |-> {}, shouldRetry |-> {}, retryDelay |-> {},
   calculated |-> {}]

\* No client constructed through the recorded constructor call.
NoBuild ==
  [clientConfig |-> {}, requestConfig |-> {}, config |-> {},
   fullConfig |-> {}, retryPolicy |-> {}]

\* CacheService as constructed: an empty Map (its entries in insertion
\* order), maxSize 100, no hits, no misses.  `last` is history: the latest
\* operation and the keys before it.
NewCache ==
  [cache |-> <<>>, maxSize |-> 100, hits |-> 0, misses |-> 0,
   last |-> [op |-> "new", key |-> "", before |-> <<>>]]

Init ==
  /\ interceptors = <<>>
  /\ clientRetryPolicy \in ClientPolicies
  /\ calls = [c \in Calls |-> IdleCall]
  /\ probe = NoProbe
  /\ built = NoBuild
  /\ cache = NewCache

\* HttpClient.addInterceptor
addInterceptor(i) ==
  /\ Len(interceptors) < MaxInterceptors
  /\ interceptors' = Append(interceptors, i)
  /\ UNCHANGED <<clientRetryPolicy, calls, probe, built, cache>>

\* Array.prototype.indexOf / splice(index, 1)
indexOf(list, x) ==
  IF \E k \in 1..Len(list) : list[k] = x
  THEN CHOOSE k \in 1..Len(list) :
         list[k] = x /\ \A j \in 1..(k - 1) : list[j] # x
  ELSE 0

splice(list, k) ==
  [j \in 1..(Len(list) - 1) |-> IF j < k THEN list[j] ELSE list[j + 1]]

\* HttpClient.removeInterceptor
removeInterceptor(i) ==
  /\ indexOf(interceptors, i) > 0
  /\ interceptors' = splice(interceptors, indexOf(interceptors, i))
  /\ UNCHANGED <<clientRetryPolicy, calls, probe, built, cache>>

\* buildRequestConfig and the policy resolution of request().
resolvePolicy(callPolicy) ==
  IF callPolicy # {} THEN CHOOSE p \in callPolicy : TRUE
  ELSE IF clientRetryPolicy # {} THEN CHOOSE p \in clientRetryPolicy : TRUE
  ELSE DefaultRetryPolicy

\* HttpClient.request up to its first suspension, for a request config
\* with the given method.
requestAs(c, callPolicy, method) ==
  /\ calls[c].pc = "idle"
  /\ calls' = [calls EXCEPT ![c] =
       LoopHead([IdleCall EXCEPT
                   !.retryPolicy = resolvePolicy(callPolicy),
                   !.method = method,
                   !.fullConfig = {"Content-Type", "Accept"}],
                interceptors, FirstAttempt)]
  /\ UNCHANGED <<interceptors, clientRetryPolicy, probe, built, cache>>

\* HttpClient.get(url, {retryPolicy}).
request(c, callPolicy) == requestAs(c, callPolicy, "GET")

onRequestReturn_fromOriginal(c) ==
  LET call == calls[c]
      kind == IHttpInterceptor(call.hook).onRequest
      out  == IF kind = "addHeader" THEN call.fullConfig \cup {"X-Test"}
              ELSE call.fullConfig
  IN  /\ call.pc = "onRequest"
      /\ calls' = [calls EXCEPT ![c] =
           applyRequestInterceptors(call, interceptors, call.idx + 1, out)]
      /\ UNCHANGED <<interceptors, clientRetryPolicy, probe, built, cache>>

\* The awaited onRequest hook returns.
onRequestReturn(c) ==
  LET call == calls[c]
      kind == IHttpInterceptor(call.hook).onRequest
      out  == IF kind = "addHeader" THEN call.cur \cup {"X-Test"} ELSE call.cur
  IN  /\ call.pc = "onRequest"
      /\ calls' = [calls EXCEPT ![c] =
           applyRequestInterceptors(call, interceptors, call.idx + 1, out)]
      /\ UNCHANGED <<interceptors, clientRetryPolicy, probe, built, cache>>

\* The awaited onRequest hook throws.
onRequestThrow(c) ==
  LET call == calls[c]
  IN  /\ call.pc = "onRequest"
      /\ IHttpInterceptor(call.hook).onRequest = "mayThrow"
      /\ \E e \in HookErrors(call.attempt) :
           calls' = [calls EXCEPT ![c] = Catch(call, e, "onRequest")]
      /\ UNCHANGED <<interceptors, clientRetryPolicy, probe, built, cache>>

\* fetch resolves with the response head; the timer is cleared.  Whether
\* the body will ever arrive is the remote endpoint's choice.
fetchResolve(c) ==
  LET call == calls[c]
  IN  /\ call.pc = "fetch"
      /\ call.method \in HttpMethods
      /\ \E s \in Statuses, st \in BOOLEAN :
           calls' = [calls EXCEPT ![c] =
             [call EXCEPT !.pc = "body", !.timer = "cleared",
                          !.response = [status |-> s, attempt |-> call.attempt,
                                        transformed |-> FALSE, stalled |-> st]]]
      /\ UNCHANGED <<interceptors, clientRetryPolicy, probe, built, cache>>

\* fetch rejects on a transport failure.
fetchReject(c) ==
  LET call == calls[c]
  IN  /\ call.pc = "fetch"
      /\ call.method \in HttpMethods
      /\ calls' = [calls EXCEPT ![c] =
                     Catch(call, FetchError(call.attempt), "exec")]
      /\ UNCHANGED <<interceptors, clientRetryPolicy, probe, built, cache>>

\* The timer fires while fetch is pending: abort, AbortError, TIMEOUT error.
timeoutAbort(c) ==
  LET call == calls[c]
  IN  /\ call.pc = "fetch"
      /\ call.method \in HttpMethods
      /\ call.timer = "armed"
      /\ calls' = [calls EXCEPT ![c] =
                     Catch(call, TimeoutError(call.attempt), "exec")]
      /\ UNCHANGED <<interceptors, clientRetryPolicy, probe, built, cache>>

\* fetch refuses the method: it rejects before anything is sent.
fetchRejectMethod(c) ==
  LET call == calls[c]
  IN  /\ call.pc = "fetch"
      /\ call.method \notin HttpMethods
      /\ \E e \in MethodErrors(call.attempt) :
           calls' = [calls EXCEPT ![c] = Catch(call, e, "exec")]
      /\ UNCHANGED <<interceptors, clientRetryPolicy, probe, built, cache>>

\* parseResponse returns: a response that is not ok is thrown, an ok one
\* is handed to applyResponseInterceptors.
parseResponse(c) ==
  LET call == calls[c]
      r    == call.response
  IN  /\ call.pc = "body"
      /\ ~r.stalled
      /\ calls' = [calls EXCEPT ![c] =
           IF r.status >= 200 /\ r.status < 300
           THEN applyResponseInterceptors(call, interceptors, 1, r)
           ELSE Catch(call, HttpError(r.status, call.attempt), "exec")]
      /\ UNCHANGED <<interceptors, clientRetryPolicy, probe, built, cache>>

\* parseResponse rejects (response.json() on a malformed body).
parseResponseThrow(c) ==
  LET call == calls[c]
  IN  /\ call.pc = "body"
      /\ ~call.response.stalled
      /\ calls' = [calls EXCEPT ![c] =
                     Catch(call, ParseError(call.attempt), "exec")]
      /\ UNCHANGED <<interceptors, clientRetryPolicy, probe, built, cache>>

\* The awaited onResponse hook returns.
onResponseReturn(c) ==
  LET call == calls[c]
      kind == IHttpInterceptor(call.hook).onResponse
      out  == IF kind = "transform"
              THEN [call.response EXCEPT !.transformed = TRUE]
              ELSE call.response
  IN  /\ call.pc = "onResponse"
      /\ calls' = [calls EXCEPT ![c] =
           applyResponseInterceptors(call, interceptors, call.idx + 1, out)]
      /\ UNCHANGED <<interceptors, clientRetryPolicy, probe, built, cache>>

\* The awaited onResponse hook throws.
onResponseThrow(c) ==
  LET call == calls[c]
  IN  /\ call.pc = "onResponse"
      /\ \E e \in HookErrors(call.attempt) :
           calls' = [calls EXCEPT ![c] = Catch(call, e, "onResponse")]
      /\ UNCHANGED <<interceptors, clientRetryPolicy, probe, built, cache>>

delay_notAwaited(c) ==
  LET call == calls[c]
  IN  /\ call.pc = "delay"
      /\ calls' = [calls EXCEPT ![c] =
                     LoopHead(call, interceptors, call.attempt + 1)]
      /\ UNCHANGED <<interceptors, clientRetryPolicy, probe, built, cache>>

delay_sharedCounter(c) ==
  LET call == calls[c]
      last == CHOOSE a \in {calls[d].attempt : d \in Calls} :
                \A d \in Calls : calls[d].attempt <= a
  IN  /\ call.pc = "delay"
      /\ calls' = [calls EXCEPT ![c] =
                     LoopHead([call EXCEPT !.trace =
                                 Append(@, <<"waited", call.attempt>>)],
                              interceptors, last + 1)]
      /\ UNCHANGED <<interceptors, clientRetryPolicy, probe, built, cache>>

delay_noIncrement(c) ==
  LET call == calls[c]
  IN  /\ call.pc = "delay"
      /\ calls' = [calls EXCEPT ![c] =
                     LoopHead([call EXCEPT !.trace =
                                 Append(@, <<"waited", call.attempt>>)],
                              interceptors, call.attempt)]
      /\ UNCHANGED <<interceptors, clientRetryPolicy, probe, built, cache>>

\* HttpClient.delay elapses; attempt++ and back to the loop head.
delay(c) ==
  LET call == calls[c]
  IN  /\ call.pc = "delay"
      /\ calls' = [calls EXCEPT ![c] =
                     LoopHead([call EXCEPT !.trace =
                                 Append(@, <<"waited", call.attempt>>)],
                              interceptors, call.attempt + 1)]
      /\ UNCHANGED <<interceptors, clientRetryPolicy, probe, built, cache>>

\* One step of a request() invocation after its start.
CallStep(c) ==
  \/ onRequestReturn(c)
  \/ onRequestThrow(c)
  \/ fetchResolve(c)
  \/ fetchReject(c)
  \/ timeoutAbort(c)
  \/ parseResponse(c)
  \/ parseResponseThrow(c)
  \/ onResponseReturn(c)
  \/ onResponseThrow(c)
  \/ delay(c)

\* Sequential use: the application registers its interceptors, then makes
\* one call.
Next ==
  \/ \E i \in InterceptorIds : calls[1].pc = "idle" /\ addInterceptor(i)
  \/ \E i \in InterceptorIds : calls[1].pc = "idle" /\ removeInterceptor(i)
  \/ \E p \in {{}} \cup {{q} : q \in Policies} : request(1, p)
  \/ CallStep(1)

Spec == Init /\ [][Next]_vars

\* The event loop runs every continuation that is ready, timers fire, and
\* hooks terminate: a call that can take a step eventually takes one.
LiveSpec == Spec /\ WF_vars(CallStep(1))

\* --------------------------------------------- a call with a bad method
\* One call whose config carries a method outside HttpMethods, e.g.
\* client.get(url, {method: "TRACE"}).
MalformedNext ==
  \/ \E p \in {{}} \cup {{q} : q \in Policies} : requestAs(1, p, "TRACE")
  \/ fetchRejectMethod(1)
  \/ delay(1)

SpecMalformed == Init /\ [][MalformedNext]_vars

\* ------------------------------------ construction and buildRequestConfig
\* A property of a JavaScript object literal: absent, present with the
\* value undefined, or present with a value.  `val` is empty for undefined.
Absent == [has |-> FALSE, val |-> {}]

Undefined == [has |-> TRUE, val |-> {}]

Value(v) == [has |-> TRUE, val |-> {v}]

\* Object spread {...a, ...b} on objects with the same property names: an
\* own property of b wins, also when its value is undefined.
Spread(a, b) == [k \in DOMAIN a |-> IF b[k].has THEN b[k] ELSE a[k]]

\* a || b on optional numbers (undefined and 0 are falsy) and on optional
\* objects (undefined is falsy).
OrNumber(a, b) == IF a # {} /\ a # {0} THEN a ELSE b

OrObject(a, b) == IF a # {} THEN a ELSE b

\* {...d, ...c} on header objects, each a set of <<name, value>> pairs with
\* distinct names; an undefined operand contributes nothing.
SpreadHeaders(d, c) ==
  LET dd == IF d = {} THEN {} ELSE CHOOSE h \in d : TRUE
      cc == IF c = {} THEN {} ELSE CHOOSE h \in c : TRUE
  IN  {p \in dd : \A q \in cc : q[1] # p[1]} \cup cc

\* DefaultRetryPolicy as an object literal.
DefaultRetryPolicyObject ==
  [maxAttempts |-> Value(3), baseDelay |-> Value(1000),
   maxDelay |-> Value(10000), exponentialBackoff |-> Value(TRUE),
   retryableErrors |-> Value({"NETWORK", "SYSTEM"})]

\* The retry policies of the documented usage: core/README.md, and
\* frontend/README.md, which gives no maxDelay.
PolicyObjects ==
  { [maxAttempts |-> Value(3), baseDelay |-> Value(1000),
     maxDelay |-> Value(10000), exponentialBackoff |-> Value(TRUE),
     retryableErrors |-> Absent],
    [maxAttempts |-> Value(3), baseDelay |-> Value(1000),
     maxDelay |-> Absent, exponentialBackoff |-> Value(TRUE),
     retryableErrors |-> Absent] }

\* The defaults of the constructor.
ConstructorDefaults ==
  [timeout |-> Value(30000),
   defaultHeaders |-> Value({<<"Content-Type", "application/json">>,
                             <<"Accept", "application/json">>}),
   retryPolicy |-> Value(DefaultRetryPolicyObject)]

\* HttpClientConfig values given to the constructor.
ClientConfigs ==
  [timeout : {Absent, Undefined, Value(5000)},
   defaultHeaders : {Absent, Undefined,
                     Value({<<"X-Api-Key", "k0">>})},
   retryPolicy : {Absent, Undefined} \cup {Value(p) : p \in PolicyObjects}]

\* The `config` argument of get / post / ...: headers, timeout, retryPolicy.
RequestConfigs ==
  [headers : {Absent, Undefined}
             \cup {Value(h) : h \in
                    { {},
                      {<<"content-type", "text/plain">>},
                      {<<"Content-Type", "text/plain">>},
                      {<<"X-Api-Key", "k1">>},
                      {<<"Accept", "text/plain">>, <<"X-Api-Key", "k1">>} }},
   timeout : {Absent, Undefined, Value(0), Value(5000)},
   retryPolicy : {Absent, Undefined} \cup {Value(p) : p \in PolicyObjects}]

\* HttpClient.constructor: this.config.
HttpClient_constructor(config) == Spread(ConstructorDefaults, config)

\* HttpClient.buildRequestConfig: the headers, timeout and retryPolicy of
\* the object it returns.
buildRequestConfig(thisConfig, config) ==
  [headers |-> Value(SpreadHeaders(thisConfig.defaultHeaders.val,
                                   config.headers.val)),
   timeout |-> [has |-> TRUE,
                val |-> OrNumber(config.timeout.val, thisConfig.timeout.val)],
   retryPolicy |-> [has |-> TRUE,
                    val |-> OrObject(config.retryPolicy.val,
                                     thisConfig.retryPolicy.val)]]

\* The retryPolicy constant of request().
effectiveRetryPolicy(thisConfig, fullConfig) ==
  OrObject(fullConfig.retryPolicy.val,
           OrObject(thisConfig.retryPolicy.val, {DefaultRetryPolicyObject}))

BuildInit ==
  /\ interceptors = <<>>
  /\ clientRetryPolicy = {}
  /\ calls = [c \in Calls |-> IdleCall]
  /\ probe = NoProbe
  /\ cache = NewCache
  /\ \E cc \in ClientConfigs, rc \in RequestConfigs :
       built = [clientConfig |-> cc, requestConfig |-> rc, config |-> {},
                fullConfig |-> {}, retryPolicy |-> {}]

\* new HttpClient(clientConfig)
construct ==
  /\ built.config = {}
  /\ built' = [built EXCEPT
                 !.config = {HttpClient_constructor(built.clientConfig)}]
  /\ UNCHANGED <<interceptors, clientRetryPolicy, calls, probe, cache>>

\* The first two statements of request(): fullConfig and retryPolicy.
build ==
  /\ built.config # {}
  /\ built.fullConfig = {}
  /\ LET thisConfig == CHOOSE o \in built.config : TRUE
         fullConfig == buildRequestConfig(thisConfig, built.requestConfig)
     IN  built' = [built EXCEPT
                     !.fullConfig = {fullConfig},
                     !.retryPolicy =
                        effectiveRetryPolicy(thisConfig, fullConfig)]
  /\ UNCHANGED <<interceptors, clientRetryPolicy, calls, probe, cache>>

BuildNext ==
  \/ construct
  \/ build

BuildSpec == BuildInit /\ [][BuildNext]_vars

\* ------------------------------------------------------------ CacheService
CacheKeys == {"a", "b", "ab"}

\* Patterns given to invalidate, and RegExp(pattern with * as .*).test(key)
\* on the keys that occur: "a" matches every key containing a, "b*" every
\* key containing b, "*" every key.
CachePatterns == {"a", "b*", "*"}

RegexTest(pattern, key) ==
  CASE pattern = "a"  -> key \in {"a", "ab"}
    [] pattern = "b*" -> key \in {"b", "ab"}
    [] pattern = "*"  -> TRUE

\* Map.prototype.keys / has / delete / get on the insertion-ordered entries.
MapKeys(m) == [i \in 1..Len(m) |-> m[i].key]

MapHas(m, key) == \E i \in 1..Len(m) : m[i].key = key

MapDelete(m, key) == SelectSeq(m, LAMBDA e : e.key # key)

MapGet(m, key) == m[CHOOSE i \in 1..Len(m) : m[i].key = key]

\* Map.prototype.set: an existing key keeps its position.
MapSet(m, entry) ==
  IF MapHas(m, entry.key)
  THEN [i \in 1..Len(m) |-> IF m[i].key = entry.key THEN entry ELSE m[i]]
  ELSE Append(m, entry)

\* this.cache.keys().next().value followed by this.cache.delete(firstKey):
\* on an empty Map firstKey is undefined and nothing is deleted.
DeleteFirst(m) == IF m = <<>> THEN m ELSE Tail(m)

Did(op, key) == [op |-> op, key |-> key, before |-> MapKeys(cache.cache)]

CacheInit ==
  /\ interceptors = <<>>
  /\ clientRetryPolicy = {}
  /\ calls = [c \in Calls |-> IdleCall]
  /\ probe = NoProbe
  /\ built = NoBuild
  /\ cache = NewCache

\* CacheService.get; `expired` is whether Date.now() has passed the
\* entry's ttl.
CacheService_get(key, expired) ==
  /\ cache.hits + cache.misses < MaxLookups
  /\ cache' =
       IF ~MapHas(cache.cache, key)
       THEN [cache EXCEPT !.misses = @ + 1, !.last = Did("get", key)]
       ELSE IF MapGet(cache.cache, key).ttl /\ expired
       THEN [cache EXCEPT !.cache = MapDelete(@, key), !.misses = @ + 1,
                          !.last = Did("get", key)]
       ELSE [cache EXCEPT !.hits = @ + 1, !.last = Did("get", key)]
  /\ UNCHANGED <<interceptors, clientRetryPolicy, calls, probe, built>>

\* CacheService.set
CacheService_set(key, ttl) ==
  /\ cache' = [cache EXCEPT
                 !.cache = MapSet(IF /\ Len(cache.cache) >= cache.maxSize
                                     /\ ~MapHas(cache.cache, key)
                                  THEN DeleteFirst(cache.cache)
                                  ELSE cache.cache,
                                  [key |-> key, ttl |-> ttl]),
                 !.last = Did("set", key)]
  /\ UNCHANGED <<interceptors, clientRetryPolicy, calls, probe, built>>

\* CacheService.has
CacheService_has(key, expired) ==
  /\ cache' =
       IF MapHas(cache.cache, key) /\ MapGet(cache.cache, key).ttl /\ expired
       THEN [cache EXCEPT !.cache = MapDelete(@, key), !.last = Did("has", key)]
       ELSE [cache EXCEPT !.last = Did("has", key)]
  /\ UNCHANGED <<interceptors, clientRetryPolicy, calls, probe, built>>

\* CacheService.delete
CacheService_delete(key) ==
  /\ cache' = [cache EXCEPT !.cache = MapDelete(@, key),
                            !.last = Did("delete", key)]
  /\ UNCHANGED <<interceptors, clientRetryPolicy, calls, probe, built>>

\* CacheService.clear
CacheService_clear ==
  /\ cache' = [cache EXCEPT !.cache = <<>>, !.hits = 0, !.misses = 0,
                            !.last = Did("clear", "")]
  /\ UNCHANGED <<interceptors, clientRetryPolicy, calls, probe, built>>

\* CacheService.invalidate
CacheService_invalidate(pattern) ==
  /\ cache' = [cache EXCEPT
                 !.cache = SelectSeq(@, LAMBDA e : ~RegexTest(pattern, e.key)),
                 !.last = Did("invalidate", pattern)]
  /\ UNCHANGED <<interceptors, clientRetryPolicy, calls, probe, built>>

RECURSIVE Shrink(_, _)
Shrink(m, size) == IF Len(m) > size THEN Shrink(Tail(m), size) ELSE m

\* CacheService.setMaxSize, for a size >= 0.
CacheService_setMaxSize(size) ==
  /\ cache' = [cache EXCEPT !.maxSize = size,
                            !.cache = Shrink(@, size),
                            !.last = Did("setMaxSize", "")]
  /\ UNCHANGED <<interceptors, clientRetryPolicy, calls, probe, built>>

CacheNext ==
  \/ \E key \in CacheKeys, expired \in BOOLEAN : CacheService_get(key, expired)
  \/ \E key \in CacheKeys, ttl \in BOOLEAN : CacheService_set(key, ttl)
  \/ \E key \in CacheKeys, expired \in BOOLEAN : CacheService_has(key, expired)
  \/ \E key \in CacheKeys : CacheService_delete(key)
  \/ CacheService_clear
  \/ \E pattern \in CachePatterns : CacheService_invalidate(pattern)
  \/ \E size \in 0..MaxCacheSize : CacheService_setMaxSize(size)

CacheSpec == CacheInit /\ [][CacheNext]_vars

\* ------------------------------------------- concurrent use of one client
\* The policy the callers of the concurrent scenarios pass: one retry, no
\* whitelist.
ConcPolicy ==
  [maxAttempts |-> 2, baseDelay |-> 100, maxDelay |-> 10000,
   exponentialBackoff |-> TRUE, retryableErrors |-> {}]

\* A client constructed without a retry policy, with or without a header
\* interceptor registered before the calls start.
ConcInit ==
  /\ interceptors \in {<<>>, <<"hdr">>}
  /\ clientRetryPolicy = {}
  /\ calls = [c \in Calls |-> IdleCall]
  /\ probe = NoProbe
  /\ built = NoBuild
  /\ cache = NewCache

\* The transport answers 200 with a body that arrives.
fetchOk(c) ==
  /\ fetchResolve(c)
  /\ calls'[c].response.status = 200
  /\ ~calls'[c].response.stalled

\* Steps of a call whose hooks return and whose transport answers 200,
\* fails or times out.
ConcStep(c) ==
  \/ onRequestReturn(c)
  \/ fetchOk(c)
  \/ fetchReject(c)
  \/ timeoutAbort(c)
  \/ parseResponse(c)
  \/ delay(c)

\* Any number of request() invocations on one client, interleaved at their
\* await points.
ConcNext ==
  \/ \E c \in Calls : request(c, {ConcPolicy})
  \/ \E c \in Calls : ConcStep(c)

SpecConc == ConcInit /\ [][ConcNext]_vars

\* ------------------------------- interceptor registration during a call
\* One request() invocation with addInterceptor / removeInterceptor
\* interleaved at its await points.
ReconfigureNext ==
  \/ \E i \in {"hdr", "guard"} : addInterceptor(i)
  \/ \E i \in {"hdr", "guard"} : removeInterceptor(i)
  \/ request(1, {ConcPolicy})
  \/ ConcStep(1)

SpecReconfigure == ConcInit /\ [][ReconfigureNext]_vars

\* --------------------------------------------- the helpers, called directly
\* Status codes of the errors handed to the classifier directly; 0 is an
\* error without a status.
ProbeStatuses ==
  {0, 200, 400, 401, 402, 403, 404, 408, 429, 499, 500, 503, 599, 600}

\* Errors handed to the classifier directly: bare status errors, 429 / 503
\* errors carrying a Retry-After header, the errors the client raises, and
\* errors with a network, auth or validation marker.
ProbeErrors ==
  {HttpError(st, 0) : st \in ProbeStatuses}
  \cup {[HttpError(429, 0) EXCEPT !.retryAfterHdr = h] :
          h \in {"0", "1", "2", "soon"}}
  \cup {[HttpError(503, 0) EXCEPT !.retryAfterHdr = "2"]}
  \cup {TimeoutError(0), FetchError(0), ParseError(0)}
  \cup HookErrors(0)
  \cup {[HttpError(st, 0) EXCEPT !.message = "Connection lost"] :
          st \in {401, 500}}
  \cup {[HttpError(429, 0) EXCEPT !.message = "Connection lost",
                                  !.retryAfterHdr = "2"],
        [HttpError(403, 0) EXCEPT !.name = "NetworkError"]}
  \cup {[HttpError(404, 0) EXCEPT !.message = "Connection lost"],
        [HttpError(0, 0) EXCEPT !.code = "ECONNREFUSED"],
        [HttpError(0, 0) EXCEPT !.code = "UNAUTHORIZED"],
        [HttpError(500, 0) EXCEPT !.code = "FORBIDDEN"],
        [HttpError(0, 0) EXCEPT !.name = "ValidationError"]}

\* Retry policies handed to RetryPolicyHelper directly.
ProbePolicies ==
  [maxAttempts : 0..MaxAttemptsLimit,
   baseDelay : {100, 1000},
   maxDelay : {150, 10000},
   exponentialBackoff : BOOLEAN,
   retryableErrors : {{}, {"NETWORK", "SYSTEM"}, {"NETWORK"}, {"BUSINESS"}}]

PureInit ==
  /\ interceptors = <<>>
  /\ clientRetryPolicy = {}
  /\ calls = [c \in Calls |-> IdleCall]
  /\ \E e \in ProbeErrors, a \in 1..MaxProbeAttempt, p \in ProbePolicies :
       probe = [NoProbe EXCEPT !.error = e, !.attempt = a, !.policy = p]
  /\ built = NoBuild
  /\ cache = NewCache

\* ErrorHandler.parse(error)
probeParse ==
  /\ probe.errorInfo = {}
  /\ probe' = [probe EXCEPT !.errorInfo = {parse(probe.error)}]
  /\ UNCHANGED <<interceptors, clientRetryPolicy, calls, built, cache>>

\* RetryPolicyHelper.shouldRetry(error, attempt, policy)
probeShouldRetry ==
  /\ probe.shouldRetry = {}
  /\ probe' = [probe EXCEPT !.shouldRetry =
                 {RetryPolicyHelper_shouldRetry(probe.error, probe.attempt,
                                                probe.policy)}]
  /\ UNCHANGED <<interceptors, clientRetryPolicy, calls, built, cache>>

\* RetryPolicyHelper.getRetryDelay(error, attempt, policy)
probeGetRetryDelay ==
  /\ probe.retryDelay = {}
  /\ probe' = [probe EXCEPT !.retryDelay =
                 {getRetryDelay(probe.error, probe.attempt, probe.policy)}]
  /\ UNCHANGED <<interceptors, clientRetryPolicy, calls, built, cache>>

\* RetryPolicyHelper.calculateDelay(attempt, policy)
probeCalculateDelay ==
  /\ probe.calculated = {}
  /\ probe' = [probe EXCEPT !.calculated =
                 {calculateDelay(probe.attempt, probe.policy)}]
  /\ UNCHANGED <<interceptors, clientRetryPolicy, calls, built, cache>>

PureNext ==
  \/ probeParse
  \/ probeShouldRetry
  \/ probeGetRetryDelay
  \/ probeCalculateDelay

PureSpec == PureInit /\ [][PureNext]_vars

\* ================================================================= claims
Terminal(call) == call.pc \in {"resolved", "rejected"}

Transient(error) == categorize(error) \in {"NETWORK", "SYSTEM"}

\* Every failed attempt so far failed in the executor, with a transient
\* category.
AllExecTransient(call) ==
  /\ call.hist # <<>>
  /\ \A k \in 1..Len(call.hist) :
       call.hist[k].src = "exec" /\ Transient(call.hist[k].error)

\* The policy's whitelist admits the category of every failure so far.
WhitelistAdmits(call) ==
  \/ call.retryPolicy.retryableErrors = {}
  \/ \A k \in 1..Len(call.hist) :
       categorize(call.hist[k].error) \in call.retryPolicy.retryableErrors

\* C1 as stated: with maxAttempts = N >= 1 and an executor that fails every
\* attempt with a NETWORK or SYSTEM error, the call ends after exactly N
\* executor invocations, rejecting with the N-th attempt's error - for any
\* retry policy.
C1_AsStated ==
  \A c \in Calls :
    LET call == calls[c]
        N    == call.retryPolicy.maxAttempts
    IN  (call.pc = "rejected" /\ N >= 1 /\ AllExecTransient(call))
        => /\ call.execCount = N
           /\ call.rejection = {call.hist[Len(call.hist)].error}
           /\ call.hist[Len(call.hist)].error.id = N

\* C1 amended: the same, for policies whose retryableErrors whitelist is
\* absent or empty or contains the category of every failure.
C1_ExactlyNAttempts ==
  \A c \in Calls :
    LET call == calls[c]
        N    == call.retryPolicy.maxAttempts
    IN  (call.pc = "rejected" /\ N >= 1 /\ AllExecTransient(call)
         /\ WhitelistAdmits(call))
        => /\ call.execCount = N
           /\ call.rejection = {call.hist[Len(call.hist)].error}
           /\ call.hist[Len(call.hist)].error.id = N

\* C1 witness: a call with maxAttempts = 3 rejected after three transient
\* executor failures.
C1_Witness ==
  \E c \in Calls :
    /\ calls[c].pc = "rejected"
    /\ calls[c].retryPolicy.maxAttempts = 3
    /\ AllExecTransient(calls[c])
    /\ WhitelistAdmits(calls[c])
    /\ calls[c].execCount = 3

\* C2: a call never invokes the executor more than maxAttempts times and
\* never runs an attempt numbered above maxAttempts.
C2_AttemptsBounded ==
  \A c \in Calls :
    LET call == calls[c]
    IN  /\ call.execCount <= call.retryPolicy.maxAttempts
        /\ \A k \in 1..Len(call.execLog) :
             call.execLog[k].attempt <= call.retryPolicy.maxAttempts
        /\ \A k \in 1..Len(call.hookLog) :
             call.hookLog[k].attempt <= call.retryPolicy.maxAttempts
        /\ (InFlight(call) => call.attempt <= call.retryPolicy.maxAttempts)

\* C2 witness: a call that has used up its attempts while the policy would
\* otherwise retry the failure (a 429 with a Retry-After default, a
\* whitelisted category).
C2_Witness ==
  \E c \in Calls :
    LET call == calls[c]
    IN  /\ call.pc = "rejected"
        /\ call.retryPolicy.maxAttempts >= 2
        /\ call.execCount = call.retryPolicy.maxAttempts
        /\ Len(call.hist) = call.retryPolicy.maxAttempts
        /\ parse(call.hist[Len(call.hist)].error).shouldRetry

\* C3: every call that has started eventually resolves or rejects (hooks
\* terminate; an exchange that does not complete in time is aborted).
C3_EveryCallSettles ==
  (calls[1].pc # "idle") ~> Terminal(calls[1])

\* C4: a call that rejects after at least one attempt rejects with the very
\* error object raised by the last attempt executed.
C4_RejectsWithLastError ==
  \A c \in Calls :
    LET call == calls[c]
    IN  (call.pc = "rejected" /\ call.hist # <<>>)
        => /\ call.rejection = {call.hist[Len(call.hist)].error}
           /\ call.hist[Len(call.hist)].error.id = call.attempt

\* C4 witness: a call rejected on its third attempt, after two retried
\* failures.
C4_Witness ==
  \E c \in Calls :
    /\ calls[c].pc = "rejected"
    /\ Len(calls[c].hist) = 3
    /\ calls[c].rejection = {calls[c].hist[3].error}

\* What must hold of a call whose first attempt is not to be retried.
RejectedAfterOneAttempt(call) ==
  /\ call.pc = "rejected"
  /\ call.execCount = 1
  /\ call.waits = <<>>
  /\ Len(call.hist) = 1

\* C5 as stated: when the executor fails the first attempt with an error the
\* classifier marks shouldRetry = false, the call rejects after exactly one
\* executor invocation and no backoff wait.
C5_AsStated ==
  \A c \in Calls :
    LET call == calls[c]
    IN  (call.hist # <<>> /\ call.hist[1].src = "exec"
         /\ ~ErrorHandler_shouldRetry(call.hist[1].error))
        => RejectedAfterOneAttempt(call)

\* The policy does not retry the category of this error: it is outside a
\* non-empty whitelist, or there is no whitelist and the classifier says
\* shouldRetry = false.
PolicyNonRetryable(error, policy) ==
  IF policy.retryableErrors # {}
  THEN categorize(error) \notin policy.retryableErrors
  ELSE ~ErrorHandler_shouldRetry(error)

\* C5 amended: when the executor fails the first attempt with an error the
\* policy does not retry, the call rejects after exactly one executor
\* invocation and no backoff wait.
C5_NonRetryableRejectsAtOnce ==
  \A c \in Calls :
    LET call == calls[c]
    IN  (call.hist # <<>> /\ call.hist[1].src = "exec"
         /\ PolicyNonRetryable(call.hist[1].error, call.retryPolicy))
        => RejectedAfterOneAttempt(call)

\* C5 witness: a 404 on the first attempt of a call whose policy allows
\* three attempts.
C5_Witness ==
  \E c \in Calls :
    /\ calls[c].retryPolicy.maxAttempts = 3
    /\ calls[c].hist # <<>>
    /\ calls[c].hist[1].src = "exec"
    /\ calls[c].hist[1].error.status = 404
    /\ PolicyNonRetryable(calls[c].hist[1].error, calls[c].retryPolicy)
    /\ RejectedAfterOneAttempt(calls[c])

\* C6: with maxAttempts = 3, baseDelay = 100 and exponential backoff, a call
\* whose first two attempts fail in the executor with a NETWORK error and
\* whose third succeeds resolves with the third response's payload after
\* waits of 100 and then 200 ms.
C6_BackoffScenario ==
  \A c \in Calls :
    LET call == calls[c]
    IN  (/\ call.pc = "resolved"
         /\ call.retryPolicy.maxAttempts = 3
         /\ call.retryPolicy.baseDelay = 100
         /\ call.retryPolicy.maxDelay = 10000
         /\ call.retryPolicy.exponentialBackoff
         /\ Len(call.hist) = 2
         /\ \A k \in 1..2 : /\ call.hist[k].src = "exec"
                            /\ categorize(call.hist[k].error) = "NETWORK")
        => /\ call.waits = <<100, 200>>
           /\ \A v \in call.resolution : v.attempt = 3

\* C7 as stated: a timeout is a TIMEOUT / 408 error classified NETWORK with
\* shouldRetry = true, and whenever attempts remain the call goes on to a
\* next attempt.
C7_AsStated ==
  \A c \in Calls :
    LET call == calls[c]
    IN  \A k \in 1..Len(call.hist) :
          LET e == call.hist[k].error
          IN  (call.hist[k].src = "exec" /\ e.code = "TIMEOUT")
              => /\ e.status = 408
                 /\ categorize(e) = "NETWORK"
                 /\ ErrorHandler_shouldRetry(e)
                 /\ (k < call.retryPolicy.maxAttempts
                     => (call.pc = "delay" \/ call.attempt > k))

\* C7 amended: the same, where the call goes on to a next attempt whenever
\* attempts remain and the policy's whitelist is absent, empty or contains
\* NETWORK.
C7_TimeoutRetried ==
  \A c \in Calls :
    LET call == calls[c]
    IN  \A k \in 1..Len(call.hist) :
          LET e == call.hist[k].error
          IN  (call.hist[k].src = "exec" /\ e.code = "TIMEOUT")
              => /\ e.status = 408
                 /\ categorize(e) = "NETWORK"
                 /\ ErrorHandler_shouldRetry(e)
                 /\ ((/\ k < call.retryPolicy.maxAttempts
                      /\ \/ call.retryPolicy.retryableErrors = {}
                         \/ "NETWORK" \in call.retryPolicy.retryableErrors)
                     => (call.pc = "delay" \/ call.attempt > k))

\* C7 witness: the first attempt timed out and the second attempt's
\* exchange is under way.
C7_Witness ==
  \E c \in Calls :
    /\ calls[c].hist # <<>>
    /\ calls[c].hist[1].error = TimeoutError(1)
    /\ calls[c].attempt = 2
    /\ calls[c].pc = "fetch"

\* C8: when a call surfaces a terminal failure while an interceptor with an
\* onError hook is registered, that hook has been invoked.
C8_OnErrorInvoked ==
  \A c \in Calls :
    LET call == calls[c]
    IN  (/\ call.pc = "rejected"
         /\ call.hist # <<>>
         /\ \E i \in 1..Len(interceptors) :
              IHttpInterceptor(interceptors[i]).onError # "")
        => call.onErrorCalls >= 1

\* C9: a throw of an onRequest / onResponse hook in attempt k ends the
\* attempt there (no later hook of that fold, and after onRequest no
\* executor and no response hook, runs in attempt k) and is then treated as
\* a failure of the attempt: waited for and retried when shouldRetry allows,
\* rejected with otherwise.
C9_HookThrowIsAttemptFailure ==
  \A c \in Calls :
    LET call == calls[c]
    IN  \A k \in 1..Len(call.hist) :
          LET h == call.hist[k]
          IN  h.src \in {"onRequest", "onResponse"}
              => /\ \A j \in 1..Len(call.hookLog) :
                      LET g == call.hookLog[j]
                      IN  g.attempt = k
                          => /\ (g.hook = h.src => g.pos <= h.pos)
                             /\ (h.src = "onRequest" => g.hook = "onRequest")
                 /\ (h.src = "onRequest"
                     => \A j \in 1..Len(call.execLog) :
                          call.execLog[j].attempt # k)
                 /\ IF RetryPolicyHelper_shouldRetry(h.error, k,
                                                     call.retryPolicy)
                    THEN /\ Len(call.waits) >= k
                         /\ call.waits[k] =
                              getRetryDelay(h.error, k, call.retryPolicy)
                         /\ (call.pc = "delay" \/ call.attempt > k)
                    ELSE /\ call.pc = "rejected"
                         /\ call.rejection = {h.error}
                         /\ Len(call.hist) = k
                         /\ Len(call.waits) = k - 1

\* C9 witness: an onRequest hook threw in attempt 1 and was retried, an
\* onResponse hook threw in attempt 2 and was surfaced.
C9_Witness ==
  \E c \in Calls :
    /\ calls[c].pc = "rejected"
    /\ Len(calls[c].hist) = 2
    /\ calls[c].hist[1].src = "onRequest"
    /\ calls[c].hist[2].src = "onResponse"
    /\ calls[c].retryPolicy.maxAttempts = 3

\* C10: while the interceptor that adds X-Test is registered, every config
\* handed to the executor - first attempt and retries - has the header.
C10_HeaderOnEveryAttempt ==
  \A c \in Calls :
    (\E i \in 1..Len(interceptors) : interceptors[i] = "hdr")
    => \A k \in 1..Len(calls[c].execLog) :
         "X-Test" \in calls[c].execLog[k].headers

\* C10 witness: three executor invocations of one call, each with the
\* header, after a throwing hook that runs before the header hook.
C10_Witness ==
  \E c \in Calls :
    /\ interceptors = <<"guard", "hdr">>
    /\ Len(calls[c].execLog) = 3
    /\ \A k \in 1..3 : /\ calls[c].execLog[k].attempt = k
                       /\ "X-Test" \in calls[c].execLog[k].headers

\* C11: in request(), a failed attempt with status 429 is retried while
\* attempts remain, whatever its category - also under DefaultRetryPolicy.
C11_Retries429 ==
  \A c \in Calls :
    LET call == calls[c]
    IN  \A k \in 1..Len(call.hist) :
          (call.hist[k].error.status = 429 /\ k < call.retryPolicy.maxAttempts)
          => (call.pc = "delay" \/ call.attempt > k)

\* C12 as stated: with a non-empty whitelist, shouldRetry returning true
\* implies that the classifier's own shouldRetry is true.
C12_AsStated ==
  (probe.shouldRetry = {TRUE} /\ probe.policy.retryableErrors # {})
  => ErrorHandler_shouldRetry(probe.error)

\* C12 amended: with a non-empty whitelist, shouldRetry returns true only
\* for an error whose category is in the whitelist; that implies the
\* classifier's own shouldRetry when the whitelist names no category other
\* than NETWORK and SYSTEM.
C12_WhitelistDecides ==
  (probe.shouldRetry = {TRUE} /\ probe.policy.retryableErrors # {})
  => /\ categorize(probe.error) \in probe.policy.retryableErrors
     /\ (probe.policy.retryableErrors \subseteq {"NETWORK", "SYSTEM"}
         => ErrorHandler_shouldRetry(probe.error))

\* C12 witness: whitelist [NETWORK], a BUSINESS failure with attempts left
\* is not retried.
C12_Witness ==
  /\ probe.policy.retryableErrors = {"NETWORK"}
  /\ probe.attempt < probe.policy.maxAttempts
  /\ categorize(probe.error) = "BUSINESS"
  /\ probe.error.status = 429
  /\ probe.shouldRetry = {FALSE}

\* C13: shouldRetry returns false whenever attempt >= maxAttempts, for every
\* error and whitelist; with maxAttempts = 1 it never returns true.
C13_FalseAtMaxAttempts ==
  /\ (probe.attempt >= probe.policy.maxAttempts
      => probe.shouldRetry \subseteq {FALSE})
  /\ (probe.policy.maxAttempts = 1 => probe.shouldRetry \subseteq {FALSE})

\* C13 witness: the last allowed attempt failed with a whitelisted NETWORK
\* error and shouldRetry returned false.
C13_Witness ==
  /\ probe.attempt = probe.policy.maxAttempts
  /\ probe.policy.retryableErrors = {"NETWORK", "SYSTEM"}
  /\ categorize(probe.error) = "NETWORK"
  /\ probe.shouldRetry = {FALSE}

\* 2^(a-1) for a = 1, 2, ...
Doubling(a) == <<1, 2, 4, 8, 16, 32, 64, 128>>[a]

\* C14: with exponentialBackoff the computed delay for attempt a is
\* min(baseDelay * 2^(a-1), maxDelay); for baseDelay 1000 and maxDelay
\* 10000 the delays of attempts 1..5 are 1000, 2000, 4000, 8000, 10000.
C14_ExponentialDelay ==
  \A d \in probe.calculated :
    probe.policy.exponentialBackoff
    => /\ d = Min(probe.policy.baseDelay * Doubling(probe.attempt),
                  probe.policy.maxDelay)
       /\ ((/\ probe.policy.baseDelay = 1000
            /\ probe.policy.maxDelay = 10000
            /\ probe.attempt <= 5)
           => d = <<1000, 2000, 4000, 8000, 10000>>[probe.attempt])

\* C14 witness: attempt 5 with baseDelay 1000 is capped at 10000.
C14_Witness ==
  /\ probe.policy.exponentialBackoff
  /\ probe.policy.baseDelay = 1000
  /\ probe.policy.maxDelay = 10000
  /\ probe.attempt = 5
  /\ probe.calculated = {10000}

\* C15: without a retryAfter hint the retry delay is min(base, maxDelay) in
\* both backoff modes and so never exceeds maxDelay.
C15_DelayCapped ==
  \A d \in probe.retryDelay :
    (getRetryAfter(probe.error) = 0 /\ probe.error.retryAfterHdr = "")
    => /\ d = Min(IF probe.policy.exponentialBackoff
                  THEN probe.policy.baseDelay * Doubling(probe.attempt)
                  ELSE probe.policy.baseDelay,
                  probe.policy.maxDelay)
       /\ d <= probe.policy.maxDelay

\* C16: for a 429 error with a Retry-After header of n whole seconds,
\* n >= 0, the retry delay is n * 1000 ms for every attempt and policy.
C16_RetryAfterVerbatim ==
  \A d \in probe.retryDelay :
    (/\ probe.error.status = 429
     /\ probe.error.retryAfterHdr \in {"0", "1", "2"})
    => d = (CASE probe.error.retryAfterHdr = "0" -> 0
              [] probe.error.retryAfterHdr = "1" -> 1000
              [] probe.error.retryAfterHdr = "2" -> 2000)

\* C17: the classifier's shouldRetry flag is true exactly for the errors of
\* category NETWORK or SYSTEM and the errors with status 429.
C17_ClassifierShouldRetry ==
  \A info \in probe.errorInfo :
    info.shouldRetry <=> (\/ info.category \in {"NETWORK", "SYSTEM"}
                          \/ probe.error.status = 429)

\* C17 witness: a 429 classified BUSINESS is flagged, a 404 is not - here
\* the flagged one.
C17_Witness ==
  \E info \in probe.errorInfo :
    /\ probe.error.status = 429
    /\ info.category = "BUSINESS"
    /\ info.shouldRetry

\* C18: the attempts of one call are strictly sequential: attempt 1 opens
\* the call, and attempt k + 1 starts only directly after attempt k was
\* caught as failed and its backoff wait completed; no event of an earlier
\* attempt follows an event of a later one.
C18_AttemptsSequential ==
  \A c \in Calls :
    LET t == calls[c].trace
    IN  /\ \A i \in 1..(Len(t) - 1) : t[i][2] <= t[i + 1][2]
        /\ \A i \in 1..Len(t) :
             t[i][1] = "try"
             => IF t[i][2] = 1
                THEN i = 1
                ELSE /\ i >= 3
                     /\ t[i - 1] = <<"waited", t[i][2] - 1>>
                     /\ t[i - 2] = <<"catch", t[i][2] - 1>>
        /\ \A i, j \in 1..Len(t) :
             (t[i][1] = "try" /\ t[i] = t[j]) => i = j

\* C18 witness: a third attempt is executing after two failed attempts.
C18_Witness ==
  /\ calls[1].pc = "fetch"
  /\ calls[1].attempt = 3
  /\ Len(calls[1].waits) = 2

\* C19: concurrent calls have independent attempt counters: a call's
\* counter starts at 1 with its own request(), advances by one only at the
\* end of its own backoff wait, and no step changes two calls.
C19_IndependentCounters ==
  [][\A c \in Calls :
       calls'[c] # calls[c]
       => /\ \A d \in Calls \ {c} : calls'[d] = calls[d]
          /\ \/ calls'[c].attempt = calls[c].attempt
             \/ calls[c].pc = "idle" /\ calls'[c].attempt = 1
             \/ calls[c].pc = "delay"
                /\ calls'[c].attempt = calls[c].attempt + 1]_vars

\* C19 witness: two calls in flight on one client, at different attempts.
C19_Witness ==
  /\ calls[1].pc = "fetch" /\ calls[1].attempt = 2
  /\ calls[2].pc = "fetch" /\ calls[2].attempt = 1

\* The interceptors of `list` that have `hook`, in order.
HooksOf(list, hook) ==
  SelectSeq(list, LAMBDA i : IHttpInterceptor(i)[hook] # "")

\* The interceptors whose `hook` ran in the current attempt, in order.
RanIn(call, hook) ==
  LET sel == SelectSeq(call.hookLog,
                       LAMBDA h : h.attempt = call.attempt /\ h.hook = hook)
  IN  [k \in 1..Len(sel) |-> sel[k].id]

\* C20: addInterceptor / removeInterceptor during a call affect only
\* attempts not yet started: the attempt in progress runs the request hooks
\* of the sequence that existed when it started - none skipped, none added,
\* none run twice.
C20_AttemptUsesSnapshot ==
  \A c \in Calls :
    calls[c].pc \in {"fetch", "body"}
    => RanIn(calls[c], "onRequest") = HooksOf(calls[c].snapshot, "onRequest")

\* C21: a request whose config is malformed (a method outside GET / POST /
\* PUT / DELETE / PATCH) is never retried: the executor is invoked at most
\* once and no backoff wait is performed, whatever the retry policy.
C21_MalformedNeverRetried ==
  \A c \in Calls :
    calls[c].method \notin HttpMethods
    => (calls[c].execCount <= 1 /\ calls[c].waits = <<>>)

\* The hooks of kind `hook` invoked in the current attempt, in order.
HooksRun(call, hook) ==
  SelectSeq(call.hookLog,
            LAMBDA h : h.attempt = call.attempt /\ h.hook = hook)

\* What interceptor `id` returns from onRequest(config).
OnRequestResult(id, config) ==
  IF id = "hdr" THEN config \cup {"X-Test"} ELSE config

\* What interceptor `id` returns from onResponse(response).
OnResponseResult(id, response) ==
  IF id = "xform" THEN [response EXCEPT !.transformed = TRUE] ELSE response

\* C22: the hooks are folded in registration order: the hooks invoked are
\* those of the registered interceptors that have the hook, in list order;
\* the first receives the built config (the executor's response), each
\* later one the value its predecessor returned; the executor (the caller)
\* receives the value returned by the last hook.
C22_FoldInOrder ==
  \A c \in Calls :
    LET call == calls[c]
        reqs == HooksRun(call, "onRequest")
        ress == HooksRun(call, "onResponse")
        reqHooks == HooksOf(call.snapshot, "onRequest")
        resHooks == HooksOf(call.snapshot, "onResponse")
    IN  /\ Len(reqs) <= Len(reqHooks)
        /\ \A k \in 1..Len(reqs) :
             /\ reqs[k].id = reqHooks[k]
             /\ reqs[k].arg =
                  (IF k = 1 THEN call.fullConfig
                   ELSE OnRequestResult(reqs[k - 1].id, reqs[k - 1].arg))
        /\ call.pc \in {"fetch", "body", "onResponse", "resolved"}
           => /\ Len(reqs) = Len(reqHooks)
              /\ call.execLog[Len(call.execLog)].attempt = call.attempt
              /\ call.execLog[Len(call.execLog)].headers =
                   (IF reqs = <<>> THEN call.fullConfig
                    ELSE OnRequestResult(reqs[Len(reqs)].id,
                                         reqs[Len(reqs)].arg))
        /\ Len(ress) <= Len(resHooks)
        /\ \A k \in 1..Len(ress) :
             /\ ress[k].id = resHooks[k]
             /\ ress[k].arg =
                  (IF k = 1
                   THEN [status |-> ress[1].arg.status,
                         attempt |-> call.attempt,
                         transformed |-> FALSE, stalled |-> FALSE]
                   ELSE OnResponseResult(ress[k - 1].id, ress[k - 1].arg))
        /\ call.pc = "resolved"
           => /\ Len(ress) = Len(resHooks)
              /\ call.resolution =
                   {[attempt |-> call.attempt,
                     transformed |-> (ress # <<>>)]}

\* C22 witness: with <<hdr, guard>> registered the executor received the
\* config with hdr's header, handed on unchanged by guard.
C22_Witness ==
  /\ interceptors = <<"hdr", "guard">>
  /\ calls[1].pc = "fetch"
  /\ Len(HooksRun(calls[1], "onRequest")) = 2
  /\ calls[1].execLog[Len(calls[1].execLog)].headers
       = {"Content-Type", "Accept", "X-Test"}

\* C23: before the first attempt the effective timeout is a number and the
\* effective retry policy has maxAttempts, baseDelay, maxDelay and
\* exponentialBackoff defined, for every client config and per-call
\* override - absent, undefined, or a policy without maxDelay.
C23_FullyResolved ==
  \A fullConfig \in built.fullConfig :
    /\ fullConfig.timeout.val # {}
    /\ built.retryPolicy # {}
    /\ \A policy \in built.retryPolicy :
         /\ policy.maxAttempts.val # {}
         /\ policy.baseDelay.val # {}
         /\ policy.maxDelay.val # {}
         /\ policy.exponentialBackoff.val # {}

\* The headers of an optional header object.
HeadersOf(h) == IF h = {} THEN {} ELSE CHOOSE x \in h : TRUE

\* C24: the effective headers are the defaults merged under the caller's:
\* every caller header is present, every default not overridden is kept,
\* and on a name conflict - names compared case-insensitively - only the
\* caller's value survives.
C24_HeaderMerge ==
  \A fullConfig \in built.fullConfig :
    LET thisConfig == CHOOSE o \in built.config : TRUE
        defaults  == HeadersOf(thisConfig.defaultHeaders.val)
        caller    == HeadersOf(built.requestConfig.headers.val)
        effective == HeadersOf(fullConfig.headers.val)
        Overridden(p) ==
          \E q \in caller : ToLowerCase(q[1]) = ToLowerCase(p[1])
    IN  /\ caller \subseteq effective
        /\ \A p \in defaults : ~Overridden(p) => p \in effective
        /\ \A p \in effective : p \in caller \/ (p \in defaults /\ ~Overridden(p))

\* An error that carries nothing but (possibly) a status code.
StatusOnly(error) ==
  error.message = "" /\ error.code = "" /\ error.name = ""

\* An error with a network marker in its message, code or name.
NetworkMarked(error) ==
  \/ error.message \in {"Connection lost", "Failed to fetch",
                        "Request timeout"}
  \/ error.code = "ECONNREFUSED"
  \/ error.name = "NetworkError"

\* C25: a status-only error is AUTHENTICATION for 401, AUTHORIZATION for
\* 403, VALIDATION for 400, BUSINESS for every other status in 402..499,
\* SYSTEM for 500..599 and UNKNOWN otherwise; an error with a network
\* marker is NETWORK whatever its status.
C25_StatusCategories ==
  \A info \in probe.errorInfo :
    LET st == probe.error.status
    IN  /\ StatusOnly(probe.error)
           => info.category =
                (CASE st = 401 -> "AUTHENTICATION"
                   [] st = 403 -> "AUTHORIZATION"
                   [] st = 400 -> "VALIDATION"
                   [] st \in (402..499) \ {403} -> "BUSINESS"
                   [] st \in 500..599 -> "SYSTEM"
                   [] OTHER -> "UNKNOWN")
        /\ NetworkMarked(probe.error) => info.category = "NETWORK"

\* C25 witness: a 401 whose message has a network marker is NETWORK.
C25_Witness ==
  \E info \in probe.errorInfo :
    /\ probe.error.status = 401
    /\ probe.error.message = "Connection lost"
    /\ info.category = "NETWORK"

Tries(call) ==
  Cardinality({i \in 1..Len(call.trace) : call.trace[i][1] = "try"})

\* C27 as stated: in a call that has settled, the number of backoff waits
\* equals the number of executor invocations minus one.
C27_AsStated ==
  \A c \in Calls :
    Terminal(calls[c]) => Len(calls[c].waits) = calls[c].execCount - 1

\* C27 amended: in a settled call that started at least one attempt the
\* number of backoff waits equals the number of attempts minus one - and
\* the number of executor invocations minus one when no request hook threw;
\* every wait lies between a failed attempt and the next attempt, none
\* follows the attempt that settled the call.
C27_WaitsBetweenAttempts ==
  \A c \in Calls :
    LET call == calls[c]
        t    == call.trace
        Waited == {i \in 1..Len(t) : t[i][1] = "waited"}
    IN  /\ (Terminal(call) /\ Tries(call) >= 1)
           => /\ Len(call.waits) = Tries(call) - 1
              /\ Cardinality(Waited) = Len(call.waits)
              /\ t[Len(t)][1] \in {"return", "catch"}
              /\ (\A k \in 1..Len(call.hist) : call.hist[k].src # "onRequest")
                 => Len(call.waits) = call.execCount - 1
        /\ \A i \in Waited :
             /\ i > 1 /\ t[i - 1] = <<"catch", t[i][2]>>
             /\ i < Len(t) /\ t[i + 1] = <<"try", t[i][2] + 1>>

\* C27 witness: a call rejected after three attempts and two waits, the
\* first attempt failed in a request hook: two executor invocations.
C27_Witness ==
  /\ calls[1].pc = "rejected"
  /\ Tries(calls[1]) = 3
  /\ Len(calls[1].waits) = 2
  /\ calls[1].execCount = 2
  /\ calls[1].hist[1].src = "onRequest"

\* C28: every attempt starts its request-hook fold from the config built
\* before the loop, and the configs handed to the executor in the attempts
\* of one call are identical.
C28_FoldFromFullConfig ==
  \A c \in Calls :
    LET call == calls[c]
        log  == call.hookLog
    IN  /\ \A i \in 1..Len(log) :
             (/\ log[i].hook = "onRequest"
              /\ \A j \in 1..(i - 1) :
                   ~(log[j].hook = "onRequest"
                     /\ log[j].attempt = log[i].attempt))
             => log[i].arg = call.fullConfig
        /\ \A i, j \in 1..Len(call.execLog) :
             call.execLog[i].headers = call.execLog[j].headers

\* C28 witness: with hdr registered, the executor received the same
\* config, header included, in attempts 1 and 2.
C28_Witness ==
  /\ interceptors = <<"hdr">>
  /\ Len(calls[1].execLog) = 2
  /\ calls[1].execLog[1].headers = {"Content-Type", "Accept", "X-Test"}
  /\ calls[1].execLog[2].headers = {"Content-Type", "Accept", "X-Test"}

\* The call reached the statements after the retry loop.
PostLoop(call) ==
  \E i \in 1..Len(call.trace) : call.trace[i][1] = "rethrow"

C30_SizeBounded ==
  LET keys   == MapKeys(cache.cache)
      before == cache.last.before
      isNew  == \A i \in 1..Len(before) : before[i] # cache.last.key
  IN  /\ Len(cache.cache) <= cache.maxSize
      /\ (cache.last.op = "set" /\ isNew /\ before # <<>>
          /\ Len(before) >= cache.maxSize)
         => keys = Append(Tail(before), cache.last.key)
      /\ (cache.last.op = "set" /\ ~isNew) => keys = before

====
